---- MODULE Spec2Model ----
(***************************************************************************)
(* ControldeInspecciones (src/app.py): a Streamlit script that joins a     *)
(* vehicle registry with an inspection log by normalized plate and reports *)
(* the latest inspection, its compliance labels and a staleness tier.      *)
(*                                                                         *)
(* Text is a sequence of one-character strings.  A spreadsheet cell is a   *)
(* record [kind, s, n]: kind "nan" (blank), "str" (text s), "int" (the     *)
(* integer n) or "float" (the float n.0).  A timestamp is a record         *)
(* [nat, day, ns]: NaT, or day days after 1899-12-30 plus ns nanoseconds.  *)
(***************************************************************************)
EXTENDS Integers, Sequences, FiniteSets, TLC

(***************************************************************************)
(* Bounds of the checked inputs.                                           *)
(***************************************************************************)
MaxStrLen == 3
MaxScoreLen == 4
MaxDays == 4
MaxThreshold == 8
MaxCol == 2
MaxReg == 2
MaxInsp == 2
Today == 45007

(***************************************************************************)
(* Cells and text.                                                         *)
(***************************************************************************)
NaN == [kind |-> "nan", s |-> <<>>, n |-> 0]
StrCell(s) == [kind |-> "str", s |-> s, n |-> 0]
IntCell(n) == [kind |-> "int", s |-> <<>>, n |-> n]
FloatCell(n) == [kind |-> "float", s |-> <<>>, n |-> n]

\* pd.isna on a cell: a blank cell is read as NaN.
isna(x) == x.kind = "nan"

LowerCase == <<"a", "b", "c", "d", "e", "f", "g", "h", "i", "j", "k", "l", "m",
               "n", "o", "p", "q", "r", "s", "t", "u", "v", "w", "x", "y", "z">>
UpperCase == <<"A", "B", "C", "D", "E", "F", "G", "H", "I", "J", "K", "L", "M",
               "N", "O", "P", "Q", "R", "S", "T", "U", "V", "W", "X", "Y", "Z">>
Digits == <<"0", "1", "2", "3", "4", "5", "6", "7", "8", "9">>

Range(f) == {f[i] : i \in DOMAIN f}
IsSpace(c) == c = " "
IsDigit(c) == c \in Range(Digits)

\* The value of a digit character.
DigitVal(c) == (CHOOSE i \in DOMAIN Digits : Digits[i] = c) - 1

\* str.upper, one character at a time.
UpperChar(c) ==
    IF c \in Range(LowerCase)
    THEN UpperCase[CHOOSE i \in DOMAIN LowerCase : LowerCase[i] = c]
    ELSE c

Upper(s) == [i \in DOMAIN s |-> UpperChar(s[i])]

\* str.strip: leading and trailing whitespace removed.
RECURSIVE LStrip(_)
LStrip(s) == IF s # <<>> /\ IsSpace(Head(s)) THEN LStrip(Tail(s)) ELSE s

RECURSIVE RStrip(_)
RStrip(s) ==
    IF s # <<>> /\ IsSpace(s[Len(s)]) THEN RStrip(SubSeq(s, 1, Len(s) - 1)) ELSE s

Strip(s) == RStrip(LStrip(s))

\* str.replace(c, ""): every occurrence of the character c removed.
RECURSIVE RemoveChar(_, _)
RemoveChar(s, c) ==
    IF s = <<>> THEN <<>>
    ELSE IF Head(s) = c THEN RemoveChar(Tail(s), c)
    ELSE <<Head(s)>> \o RemoveChar(Tail(s), c)

\* The decimal digits of a natural number.
RECURSIVE NatToStr(_)
NatToStr(n) ==
    IF n < 10 THEN <<Digits[n + 1]>>
    ELSE NatToStr(n \div 10) \o <<Digits[(n % 10) + 1]>>

\* Python's str() of a cell that is not blank: text as it is, an integer as
\* its digits, a float n.0 as its digits followed by ".0".
PyStr(x) ==
    CASE x.kind = "str" -> x.s
      [] x.kind = "int" -> NatToStr(x.n)
      [] x.kind = "float" -> NatToStr(x.n) \o <<".", "0">>
      [] OTHER -> <<"n", "a", "n">>

(***************************************************************************)
(* normalize_plate                                                         *)
(***************************************************************************)
IsPlateChar(c) == c \in Range(UpperCase) \/ c \in Range(Digits)

\* re.sub(r"[^A-Z0-9]", "", s)
RECURSIVE RemoveNonPlate(_)
RemoveNonPlate(s) ==
    IF s = <<>> THEN <<>>
    ELSE IF IsPlateChar(Head(s)) THEN <<Head(s)>> \o RemoveNonPlate(Tail(s))
    ELSE RemoveNonPlate(Tail(s))

\* normalize_plate without its pd.isna test: str(nan) is normalized instead.
normalize_plate_no_isna(x) == RemoveNonPlate(Upper(Strip(PyStr(x))))

normalize_plate(x) ==
    IF isna(x) THEN <<>> ELSE RemoveNonPlate(Upper(Strip(PyStr(x))))

(***************************************************************************)
(* pd.to_numeric(text, errors="coerce"): a number is [isnum, ip, frac],    *)
(* the integer part and the digits after the decimal point.  The parser    *)
(* skips surrounding whitespace and accepts digits with at most one point. *)
(* Signs and exponents are outside the checked inputs.                     *)
(***************************************************************************)
NotNumber == [isnum |-> FALSE, ip |-> 0, frac |-> <<>>]

RECURSIVE DigitsVal(_)
DigitsVal(s) ==
    IF s = <<>> THEN 0
    ELSE DigitsVal(SubSeq(s, 1, Len(s) - 1)) * 10 + DigitVal(s[Len(s)])

AllDigits(s) == \A i \in DOMAIN s : IsDigit(s[i])

PointAt(s) == {i \in DOMAIN s : s[i] = "."}

ToNumeric(t) ==
    LET s == Strip(t)
        pts == PointAt(s)
    IN  IF s = <<>> THEN NotNumber
        ELSE IF pts = {} THEN
            IF AllDigits(s) THEN [isnum |-> TRUE, ip |-> DigitsVal(s), frac |-> <<>>]
            ELSE NotNumber
        ELSE IF Cardinality(pts) = 1 THEN
            LET p == CHOOSE i \in pts : TRUE
                a == SubSeq(s, 1, p - 1)
                b == SubSeq(s, p + 1, Len(s))
            IN  IF AllDigits(a) /\ AllDigits(b) /\ Len(a) + Len(b) > 0
                THEN [isnum |-> TRUE, ip |-> DigitsVal(a), frac |-> b]
                ELSE NotNumber
        ELSE NotNumber

(***************************************************************************)
(* compliance_label: pd.NA is the label "NA".                              *)
(***************************************************************************)
LabelThreshold == 100

compliance_label(x) ==
    IF isna(x) THEN "NA"
    ELSE LET v == ToNumeric(RemoveChar(Strip(PyStr(x)), "%"))
         IN  IF ~v.isnum THEN "NA"
             ELSE IF v.ip >= LabelThreshold THEN "Cumple" ELSE "No Cumple"

(***************************************************************************)
(* traffic_light: elapsed days are [isnan, v]; the tiers are written       *)
(* without their emoji and accents.                                        *)
(***************************************************************************)
DaysNaN == [isnan |-> TRUE, v |-> 0]
DaysOf(n) == [isnan |-> FALSE, v |-> n]

\* traffic_light with strict comparisons at both thresholds.
traffic_light_strict(days, green_max, yellow_max) ==
    IF days.isnan THEN "Sin inspeccion"
    ELSE IF days.v < green_max THEN "OK"
    ELSE IF days.v < yellow_max THEN "Alerta"
    ELSE "Critico"

traffic_light(days, green_max, yellow_max) ==
    IF days.isnan THEN "Sin inspeccion"
    ELSE IF days.v <= green_max THEN "OK"
    ELSE IF days.v <= yellow_max THEN "Alerta"
    ELSE "Critico"

(***************************************************************************)
(* Timestamps.  day counts days after ExcelOrigin (1899-12-30), ns the     *)
(* nanoseconds after midnight.                                             *)
(***************************************************************************)
NaT == [nat |-> TRUE, day |-> 0, ns |-> 0]
Timestamp(d, n) == [nat |-> FALSE, day |-> d, ns |-> n]

\* Days from 1970-01-01 to the civil date y-m-d (proleptic Gregorian).
DaysFromCivil(y, m, d) ==
    LET yy == IF m <= 2 THEN y - 1 ELSE y
        era == yy \div 400
        yoe == yy - era * 400
        mp == IF m > 2 THEN m - 3 ELSE m + 9
        doy == (153 * mp + 2) \div 5 + d - 1
        doe == yoe * 365 + yoe \div 4 - yoe \div 100 + doy
    IN  era * 146097 + doe - 719468

\* origin="1899-12-30" and the Unix epoch, as days after 1899-12-30.
ExcelOrigin == DaysFromCivil(1899, 12, 30)
UnixEpochDay == DaysFromCivil(1970, 1, 1) - ExcelOrigin

IsLeap(y) == (y % 4 = 0 /\ y % 100 # 0) \/ y % 400 = 0

DaysInMonth(y, m) ==
    IF m = 2 THEN (IF IsLeap(y) THEN 29 ELSE 28)
    ELSE IF m \in {4, 6, 9, 11} THEN 30 ELSE 31

\* Text of the form NN/NN/NNNN, the one textual date format of the checked
\* inputs.
IsSlashDate(s) ==
    /\ Len(s) = 10
    /\ s[3] = "/" /\ s[6] = "/"
    /\ \A i \in {1, 2, 4, 5, 7, 8, 9, 10} : IsDigit(s[i])

\* The date NN/NN/NNNN read day first (dayfirst=True, format %d/%m/%Y).
ParseDayFirst(s) ==
    IF ~IsSlashDate(s) THEN NaT
    ELSE LET d == DigitsVal(SubSeq(s, 1, 2))
             m == DigitsVal(SubSeq(s, 4, 5))
             y == DigitsVal(SubSeq(s, 7, 10))
         IN  IF m \in 1..12 /\ d \in 1..DaysInMonth(y, m)
             THEN Timestamp(DaysFromCivil(y, m, d) - ExcelOrigin, 0)
             ELSE NaT

\* The first non-null cell of a column, NaN when there is none.
FirstNonNull(series) ==
    IF \A i \in DOMAIN series : isna(series[i]) THEN NaN
    ELSE series[CHOOSE i \in DOMAIN series :
                    /\ ~isna(series[i])
                    /\ \A j \in 1..(i - 1) : isna(series[j])]

\* pd.to_datetime(series, errors="coerce", dayfirst=True) with no unit: when
\* the first non-null cell is text in a date format, that format is applied
\* to every cell and a cell that does not match is NaT; otherwise each cell
\* is converted on its own, a number n as n nanoseconds after the Unix epoch
\* (every n of the checked inputs is less than the nanoseconds of one day).
ToDatetime(series) ==
    LET first == FirstNonNull(series)
        strict == first.kind = "str" /\ IsSlashDate(first.s)
    IN  [i \in DOMAIN series |->
            LET x == series[i]
            IN  CASE x.kind = "nan" -> NaT
                  [] x.kind = "str" -> ParseDayFirst(x.s)
                  [] OTHER -> IF strict THEN NaT ELSE Timestamp(UnixEpochDay, x.n)]

\* pd.to_numeric(series, errors="coerce") on one cell.
CellToNumeric(x) ==
    CASE x.kind = "nan" -> NotNumber
      [] x.kind = "str" -> ToNumeric(x.s)
      [] OTHER -> [isnum |-> TRUE, ip |-> x.n, frac |-> <<>>]

\* pd.to_datetime(numeric, unit="D", origin="1899-12-30", errors="coerce")
\* on one value; the serials of the checked inputs are whole numbers.
SerialToDatetime(v) == IF v.isnum THEN Timestamp(v.ip, 0) ELSE NaT

(***************************************************************************)
(* try_parse_date                                                          *)
(***************************************************************************)
try_parse_date(series) ==
    LET dt == ToDatetime(series)
    IN  [i \in DOMAIN series |->
            IF dt[i].nat THEN SerialToDatetime(CellToNumeric(series[i]))
            ELSE dt[i]]

(***************************************************************************)
(* Tables.  A registry row is [REG_PLATE]; an inspection row is            *)
(* [Fecha, Patente, score], score a cell for each compliance column.       *)
(***************************************************************************)
ScoreCols == {"Cumplimiento Exterior", "Cumplimiento Interior",
              "Cumplimiento Conductor"}

\* Order of text as Python compares str: digits before capital letters.
CharRank(c) ==
    LET abc == Digits \o UpperCase
    IN  CHOOSE i \in DOMAIN abc : abc[i] = c

RECURSIVE TextLess(_, _)
TextLess(a, b) ==
    IF b = <<>> THEN FALSE
    ELSE IF a = <<>> THEN TRUE
    ELSE IF Head(a) = Head(b) THEN TextLess(Tail(a), Tail(b))
    ELSE CharRank(Head(a)) < CharRank(Head(b))

TsLess(a, b) == a.day < b.day \/ (a.day = b.day /\ a.ns < b.ns)

\* df_pat["plate_norm"] = df_pat["REG PLATE"].apply(normalize_plate)
WithPlateNorm(df_pat) ==
    [i \in DOMAIN df_pat |->
        [REG_PLATE |-> df_pat[i].REG_PLATE,
         plate_norm |-> normalize_plate(df_pat[i].REG_PLATE)]]

\* The inspection table with its plate_norm and Fecha_dt columns.
WithDerived(df_insp) ==
    LET Fecha_dt == try_parse_date([i \in DOMAIN df_insp |-> df_insp[i].Fecha])
    IN  [i \in DOMAIN df_insp |->
            [Fecha |-> df_insp[i].Fecha,
             Patente |-> df_insp[i].Patente,
             score |-> df_insp[i].score,
             plate_norm |-> normalize_plate(df_insp[i].Patente),
             Fecha_dt |-> Fecha_dt[i]]]

(***************************************************************************)
(* df_last: the latest inspection of each plate.                           *)
(***************************************************************************)
\* df_insp[df_insp["plate_norm"] != ""].loc[df_insp["Fecha_dt"].notna()]
Dated(df_insp) ==
    SelectSeq(SelectSeq(df_insp, LAMBDA r : r.plate_norm # <<>>),
              LAMBDA r : ~r.Fecha_dt.nat)

\* Row a sorts strictly before row b, both columns ascending.
SortBeforeAscending(a, b) ==
    \/ TextLess(a.plate_norm, b.plate_norm)
    \/ (a.plate_norm = b.plate_norm /\ TsLess(a.Fecha_dt, b.Fecha_dt))

\* Row a sorts strictly before row b under
\* sort_values(["plate_norm", "Fecha_dt"], ascending=[True, False]).
SortBefore(a, b) ==
    \/ TextLess(a.plate_norm, b.plate_norm)
    \/ (a.plate_norm = b.plate_norm /\ TsLess(b.Fecha_dt, a.Fecha_dt))

\* r put into a sorted table after every row that does not sort after it.
InsertSorted(sorted, r) ==
    LET after == {i \in DOMAIN sorted : SortBefore(r, sorted[i])}
        p == IF after = {} THEN Len(sorted) + 1
             ELSE CHOOSE i \in after : \A j \in after : i <= j
    IN  SubSeq(sorted, 1, p - 1) \o <<r>> \o SubSeq(sorted, p, Len(sorted))

\* sort_values on several columns is a stable sort: rows that compare equal
\* keep their input order.
RECURSIVE SortValues(_)
SortValues(df) ==
    IF df = <<>> THEN <<>>
    ELSE InsertSorted(SortValues(SubSeq(df, 1, Len(df) - 1)), df[Len(df)])

\* The distinct keys of a table sorted by key, in order.
RECURSIVE GroupKeys(_)
GroupKeys(df) ==
    IF df = <<>> THEN <<>>
    ELSE LET rest == GroupKeys(SubSeq(df, 1, Len(df) - 1))
             k == df[Len(df)].plate_norm
         IN  IF \E i \in DOMAIN rest : rest[i] = k THEN rest ELSE rest \o <<k>>

\* The first cell of a column that is not null, NaN when every cell is null.
FirstValid(cells) == FirstNonNull(cells)

\* groupby("plate_norm", as_index=False).first(): one row for each key; each
\* column holds the first value of the group that is not null.  Every
\* Fecha_dt of the table is a date, so the first one is the group's first.
GroupByFirst(df) ==
    LET keys == GroupKeys(df)
    IN  [g \in DOMAIN keys |->
            LET group == SelectSeq(df, LAMBDA r : r.plate_norm = keys[g])
            IN  [plate_norm |-> keys[g],
                 Fecha |-> FirstValid([i \in DOMAIN group |-> group[i].Fecha]),
                 Patente |-> FirstValid([i \in DOMAIN group |-> group[i].Patente]),
                 score |-> [c \in ScoreCols |->
                     FirstValid([i \in DOMAIN group |-> group[i].score[c]])],
                 Fecha_dt |-> group[1].Fecha_dt]]

\* Lines 354-374: the reduced table, its scores relabelled, projected on
\* plate_norm, the date and the three labels.
LastInspection(df_insp) ==
    LET first == GroupByFirst(SortValues(Dated(df_insp)))
    IN  [g \in DOMAIN first |->
            [plate_norm |-> first[g].plate_norm,
             fecha |-> first[g].Fecha_dt,
             label |-> [c \in ScoreCols |-> compliance_label(first[g].score[c])]]]

(***************************************************************************)
(* The report: df_pat.merge(df_last, on="plate_norm", how="left") and the  *)
(* three derived columns.                                                  *)
(***************************************************************************)
Joined(l, r) ==
    [REG_PLATE |-> l.REG_PLATE, plate_norm |-> l.plate_norm,
     fecha |-> r.fecha, label |-> r.label]

Unmatched(l) ==
    [REG_PLATE |-> l.REG_PLATE, plate_norm |-> l.plate_norm,
     fecha |-> NaT, label |-> [c \in ScoreCols |-> "NA"]]

\* An inner join: the left rows without a match are dropped.
RECURSIVE MergeInner(_, _)
MergeInner(left, right) ==
    IF left = <<>> THEN <<>>
    ELSE LET l == Head(left)
             m == SelectSeq(right, LAMBDA r : r.plate_norm = l.plate_norm)
         IN  [j \in DOMAIN m |-> Joined(l, m[j])] \o MergeInner(Tail(left), right)

\* A left join: each left row once for every right row with its key, and
\* once with nulls when there is none; the left order is kept.
RECURSIVE MergeLeft(_, _)
MergeLeft(left, right) ==
    IF left = <<>> THEN <<>>
    ELSE LET l == Head(left)
             m == SelectSeq(right, LAMBDA r : r.plate_norm = l.plate_norm)
             rows == IF m = <<>> THEN <<Unmatched(l)>>
                     ELSE [j \in DOMAIN m |-> Joined(l, m[j])]
         IN  rows \o MergeLeft(Tail(left), right)

\* The days counted from today back to the inspection taken the other way.
DaysSinceReversed(today, fecha) ==
    IF fecha.nat THEN DaysNaN
    ELSE DaysOf(fecha.day - today)

\* The days with a missing date filled with 0.
DaysSinceFilled(today, fecha) ==
    IF fecha.nat THEN DaysOf(0)
    ELSE DaysOf(today - fecha.day - (IF fecha.ns > 0 THEN 1 ELSE 0))

\* (today - fecha).dt.days with today at midnight: the whole days of the
\* difference, rounded down; NaN for NaT.
DaysSince(today, fecha) ==
    IF fecha.nat THEN DaysNaN
    ELSE DaysOf(today - fecha.day - (IF fecha.ns > 0 THEN 1 ELSE 0))

\* Lines 376-381.
Report(df_pat, df_last, today, green_max, yellow_max) ==
    LET df == MergeLeft(df_pat, df_last)
    IN  [i \in DOMAIN df |->
            LET dias == DaysSince(today, df[i].fecha)
            IN  [REG_PLATE |-> df[i].REG_PLATE,
                 plate_norm |-> df[i].plate_norm,
                 fecha |-> df[i].fecha,
                 label |-> df[i].label,
                 Inspeccionado |-> ~df[i].fecha.nat,
                 dias |-> dias,
                 Semaforo |-> traffic_light(dias, green_max, yellow_max)]]

(***************************************************************************)
(* The script.  Streamlit runs src/app.py from top to bottom on every      *)
(* interaction; the state is the widgets' values and what the last run     *)
(* computed.                                                               *)
(***************************************************************************)
VARIABLES
    has_pat, f_pat,         \* the registry uploader: a file is present, its rows
    has_insp, f_insp,       \* the inspections uploader
    green_in, yellow_in,    \* the two number_input widgets
    stage,                  \* "upload" (st.stop at line 294) or "results"
    warned,                 \* st.warning at line 342 was shown
    green_max, yellow_max,  \* the thresholds after lines 341-343
    df_pat, df_insp,        \* the tables with their derived columns
    df_last, df,            \* the reduced table and the report
    fn,                     \* the function called, "none" before the call
    in_plate, out_plate,    \* a cell and its normalize_plate
    in_score, out_label,    \* a cell and its compliance_label
    in_days, in_thr,        \* elapsed days and <<green_max, yellow_max>>
    out_tier,               \* their traffic_light
    in_col, out_dates       \* a column and its try_parse_date

appVars == <<has_pat, f_pat, has_insp, f_insp, green_in, yellow_in, stage,
             warned, green_max, yellow_max, df_pat, df_insp, df_last, df>>
fnVars == <<fn, in_plate, out_plate, in_score, out_label, in_days, in_thr,
           out_tier, in_col, out_dates>>
vars == <<appVars, fnVars>>

GreenDefault == 7
YellowDefault == 30

\* Lines 341-343 without the assignment: yellow_max stays as entered.
yellow_unclamped(g, y) == y

\* Lines 341-343: yellow_max after the check against green_max.
yellow_clamped(g, y) == IF y < g THEN g ELSE y

\* One run of the script on the widgets' values.
Rerun(hp, fp, hi, fi, g, y) ==
    IF ~hp \/ ~hi
    THEN /\ stage' = "upload"
         /\ warned' = FALSE
         /\ green_max' = GreenDefault
         /\ yellow_max' = YellowDefault
         /\ df_pat' = <<>>
         /\ df_insp' = <<>>
         /\ df_last' = <<>>
         /\ df' = <<>>
    ELSE LET gm == g
             ym == yellow_clamped(g, y)
             pat == WithPlateNorm(fp)
             insp == WithDerived(fi)
             last == LastInspection(insp)
         IN  /\ stage' = "results"
             /\ warned' = (y < g)
             /\ green_max' = gm
             /\ yellow_max' = ym
             /\ df_pat' = pat
             /\ df_insp' = insp
             /\ df_last' = last
             /\ df' = Report(pat, last, Today, gm, ym)

AppInit ==
    /\ has_pat = FALSE /\ f_pat = <<>>
    /\ has_insp = FALSE /\ f_insp = <<>>
    /\ green_in = GreenDefault /\ yellow_in = YellowDefault
    /\ stage = "upload"
    /\ warned = FALSE
    /\ green_max = GreenDefault /\ yellow_max = YellowDefault
    /\ df_pat = <<>> /\ df_insp = <<>> /\ df_last = <<>> /\ df = <<>>

FnInit ==
    /\ fn = "none"
    /\ in_plate = NaN /\ out_plate = <<>>
    /\ in_score = NaN /\ out_label = "NA"
    /\ in_days = DaysNaN /\ in_thr = <<0, 0>> /\ out_tier = "Sin inspeccion"
    /\ in_col = <<>> /\ out_dates = <<>>

Init == AppInit /\ FnInit

\* A registry file is uploaded.  A later upload replaces the file and reruns
\* the script, which reaches no state that a first upload does not reach.
UploadPat(files) ==
    /\ ~has_pat
    /\ \E t \in files :
        /\ has_pat' = TRUE
        /\ f_pat' = t
        /\ Rerun(TRUE, t, has_insp, f_insp, green_in, yellow_in)
    /\ UNCHANGED <<has_insp, f_insp, green_in, yellow_in, fnVars>>

\* An inspections file is uploaded.
UploadInsp(files) ==
    /\ ~has_insp
    /\ \E t \in files :
        /\ has_insp' = TRUE
        /\ f_insp' = t
        /\ Rerun(has_pat, f_pat, TRUE, t, green_in, yellow_in)
    /\ UNCHANGED <<has_pat, f_pat, green_in, yellow_in, fnVars>>

\* The widgets of lines 337 and 339 exist once both files are loaded:
\* min_value=0, step=1.
SetGreen ==
    /\ stage = "results"
    /\ \E g \in 0..MaxThreshold :
        /\ green_in' = g
        /\ Rerun(has_pat, f_pat, has_insp, f_insp, g, yellow_in)
    /\ UNCHANGED <<has_pat, f_pat, has_insp, f_insp, yellow_in, fnVars>>

SetYellow ==
    /\ stage = "results"
    /\ \E y \in 0..MaxThreshold :
        /\ yellow_in' = y
        /\ Rerun(has_pat, f_pat, has_insp, f_insp, green_in, y)
    /\ UNCHANGED <<has_pat, f_pat, has_insp, f_insp, green_in, fnVars>>

(***************************************************************************)
(* The uploaded files of the checked runs.                                 *)
(***************************************************************************)
TablesOf(rows, max) == UNION {[1..n -> rows] : n \in 0..max}

RegistryRows(plates) == [REG_PLATE : plates]
InspectionRows(fechas, plates, scores) ==
    [Fecha : fechas, Patente : plates, score : scores]

PlateA == StrCell(<<"A", "-", "1">>)
PlateB == StrCell(<<"b", "2">>)
PlateA2 == StrCell(<<"a", "1", " ">>)
PlateB2 == StrCell(<<"B", "2">>)

\* 14/03/2023 is serial 44999.
FechaText == StrCell(<<"1", "4", "/", "0", "3", "/", "2", "0", "2", "3">>)
FechaSerial == IntCell(45000)

Pct100 == StrCell(<<"1", "0", "0", "%">>)
Score(e, i, c) ==
    [x \in ScoreCols |->
        CASE x = "Cumplimiento Exterior" -> e
          [] x = "Cumplimiento Interior" -> i
          [] OTHER -> c]

\* Every column sees a blank, a passing and a failing score.
ScoreRows == {Score(NaN, NaN, NaN), Score(Pct100, IntCell(90), NaN),
              Score(NaN, Pct100, IntCell(90))}

\* 02/04/2023, the 2nd of April, is serial 45018; read month first it
\* would be the 4th of February, serial 44961.
FechaText2 == StrCell(<<"0", "2", "/", "0", "4", "/", "2", "0", "2", "3">>)
FechaJunk == StrCell(<<"s", "/", "f">>)
FechaSerialText == StrCell(<<"4", "5", "0", "0", "0">>)

RegistryFiles ==
    TablesOf(RegistryRows({NaN, PlateA, PlateA2, PlateB}), MaxReg)
InspectionFiles ==
    TablesOf(InspectionRows({NaN, FechaText, FechaSerial},
                            {NaN, PlateA2, PlateB2},
                            {Score(Pct100, IntCell(90), NaN)}), MaxInsp)

\* The reconciliation: any registry against any inspection log, the
\* thresholds left at their defaults.
Next ==
    \/ UploadPat(RegistryFiles)
    \/ UploadInsp(InspectionFiles)

Spec == Init /\ [][Next]_vars

\* The selector: inspection logs whose rows differ in their scores.
ScoredInspectionFiles ==
    TablesOf(InspectionRows({NaN, FechaText, FechaSerial},
                            {NaN, PlateA2, PlateB2}, ScoreRows), MaxInsp)

NextSel ==
    \/ UploadPat(TablesOf(RegistryRows({PlateA}), MaxReg))
    \/ UploadInsp(ScoredInspectionFiles)

SpecSel == Init /\ [][NextSel]_vars

\* The thresholds: the two widgets set to any pair of values.
NextThresholds ==
    \/ UploadPat(TablesOf(RegistryRows({PlateA}), MaxReg))
    \/ UploadInsp(TablesOf(InspectionRows({FechaText, FechaSerial}, {PlateA2},
                                          {Score(Pct100, IntCell(90), NaN)}),
                           MaxInsp))
    \/ SetGreen
    \/ SetYellow

SpecThresholds == Init /\ [][NextThresholds]_vars

(***************************************************************************)
(* Single calls of the four functions on bounded inputs.                   *)
(***************************************************************************)
\* Text of at most max characters over an alphabet.
TextOf(chars, max) == UNION {[1..n -> chars] : n \in 0..max}

PlateInputs ==
    {NaN} \cup {IntCell(n) : n \in {7, 12}} \cup {FloatCell(n) : n \in {7, 12}}
    \cup {StrCell(s) : s \in TextOf({"a", "B", "1", "-", " "}, MaxStrLen)}

ScoreInputs ==
    {NaN} \cup {IntCell(n) : n \in {99, 100, 101}}
    \cup {FloatCell(n) : n \in {99, 100}}
    \cup {StrCell(s) : s \in TextOf({"1", "0", "9", ".", "%", " "}, MaxScoreLen)}

DaysInputs == {DaysNaN} \cup {DaysOf(n) : n \in (0 - 1)..MaxDays}

FechaInputs ==
    {NaN, FechaText, FechaText2, FechaJunk, FechaSerial, FechaSerialText,
     FloatCell(45000)}

CallNormalizePlate ==
    /\ fn = "none"
    /\ \E x \in PlateInputs :
        /\ in_plate' = x
        /\ out_plate' = normalize_plate(x)
    /\ fn' = "normalize_plate"
    /\ UNCHANGED <<in_score, out_label, in_days, in_thr, out_tier,
                 in_col, out_dates, appVars>>

CallComplianceLabel ==
    /\ fn = "none"
    /\ \E x \in ScoreInputs :
        /\ in_score' = x
        /\ out_label' = compliance_label(x)
    /\ fn' = "compliance_label"
    /\ UNCHANGED <<in_plate, out_plate, in_days, in_thr, out_tier,
                 in_col, out_dates, appVars>>

CallTrafficLight ==
    /\ fn = "none"
    /\ \E d \in DaysInputs, g \in 0..MaxDays :
        \E y \in g..MaxDays :
            /\ in_days' = d
            /\ in_thr' = <<g, y>>
            /\ out_tier' = traffic_light(d, g, y)
    /\ fn' = "traffic_light"
    /\ UNCHANGED <<in_plate, out_plate, in_score, out_label,
                 in_col, out_dates, appVars>>

CallTryParseDate ==
    /\ fn = "none"
    /\ \E c \in TablesOf(FechaInputs, MaxCol) :
        /\ in_col' = c
        /\ out_dates' = try_parse_date(c)
    /\ fn' = "try_parse_date"
    /\ UNCHANGED <<in_plate, out_plate, in_score, out_label, in_days, in_thr,
                   out_tier, appVars>>

NextFn ==
    \/ CallNormalizePlate
    \/ CallComplianceLabel
    \/ CallTrafficLight
    \/ CallTryParseDate

SpecFn == Init /\ [][NextFn]_vars

(***************************************************************************)
(* Properties.                                                             *)
(***************************************************************************)
Tiers == {"Sin inspeccion", "OK", "Alerta", "Critico"}

\* The inspection rows of key k that have a resolved date.
KeyRows(k) ==
    {i \in DOMAIN df_insp :
        df_insp[i].plate_norm = k /\ ~df_insp[i].Fecha_dt.nat}

\* The row of key k with the greatest resolved date, the earliest of the
\* input on equal dates.
Winner(k) ==
    CHOOSE i \in KeyRows(k) :
        \A j \in KeyRows(k) :
            /\ ~TsLess(df_insp[i].Fecha_dt, df_insp[j].Fecha_dt)
            /\ df_insp[i].Fecha_dt = df_insp[j].Fecha_dt => i <= j

\* The rows of df_last with key k.
LastRows(k) == {g \in DOMAIN df_last : df_last[g].plate_norm = k}

\* C1: every report row whose key has a row in df_last carries that row's
\* date, inspected = true, the whole days from that date to today at
\* midnight and the tier of traffic_light for those days; every other row,
\* among them the rows of the empty key and of keys without a dated
\* inspection, has no date, inspected = false, no days and "Sin inspeccion".
Reconciliation ==
    stage = "results" =>
        /\ DOMAIN df = DOMAIN f_pat
        /\ \A i \in DOMAIN df :
            LET k == normalize_plate(f_pat[i].REG_PLATE)
                row == df[i]
            IN  /\ (k = <<>> \/ KeyRows(k) = {}) => LastRows(k) = {}
                /\ IF LastRows(k) # {}
                   THEN \E g \in LastRows(k) :
                        LET date == df_last[g].fecha
                        IN  /\ row.fecha = date
                            /\ ~date.nat
                            /\ row.Inspeccionado = TRUE
                            /\ ~row.dias.isnan
                            /\ date.ns = 0 => row.dias.v = Today - date.day
                            /\ date.ns > 0 => row.dias.v = Today - date.day - 1
                            /\ row.Semaforo =
                                   traffic_light(row.dias, green_max, yellow_max)
                   ELSE /\ row.fecha = NaT
                        /\ row.Inspeccionado = FALSE
                        /\ row.dias = DaysNaN
                        /\ row.Semaforo = "Sin inspeccion"

\* C1 witness: one report with a row in the Alerta tier and a row of a
\* non-empty key that has no inspection.
ReconciliationWitness ==
    /\ stage = "results"
    /\ \E i, j \in DOMAIN df :
        /\ df[i].Inspeccionado /\ df[i].Semaforo = "Alerta"
        /\ ~df[j].Inspeccionado /\ df[j].plate_norm # <<>>

\* C2: df_last has exactly one row for each non-empty key with a dated
\* inspection row, no row for any other key, and the date of a key's row
\* is the greatest resolved date of the key's inspection rows.
LatestPerKey ==
    stage = "results" =>
        /\ \A i \in DOMAIN df_insp :
            LET k == df_insp[i].plate_norm
            IN  (k # <<>> /\ ~df_insp[i].Fecha_dt.nat)
                    => Cardinality(LastRows(k)) = 1
        /\ \A g \in DOMAIN df_last :
            LET k == df_last[g].plate_norm
            IN  /\ k # <<>>
                /\ KeyRows(k) # {}
                /\ Cardinality(LastRows(k)) = 1
                /\ \E j \in KeyRows(k) : df_insp[j].Fecha_dt = df_last[g].fecha
                /\ \A j \in KeyRows(k) :
                       ~TsLess(df_last[g].fecha, df_insp[j].Fecha_dt)

\* C2 witness: a key inspected twice, the later row the newer one.
LatestPerKeyWitness ==
    /\ stage = "results"
    /\ \E i, j \in DOMAIN df_insp :
        /\ i < j
        /\ df_insp[i].plate_norm = df_insp[j].plate_norm
        /\ df_insp[i].plate_norm # <<>>
        /\ ~df_insp[i].Fecha_dt.nat /\ ~df_insp[j].Fecha_dt.nat
        /\ TsLess(df_insp[i].Fecha_dt, df_insp[j].Fecha_dt)
        /\ Len(df_last) = 1

\* C3: the date and the three labels of every row of df_last come from one
\* inspection row, the key's winner; a blank score of the winner gives an
\* absent label.
NoFieldMerging ==
    stage = "results" =>
        \A g \in DOMAIN df_last :
            LET w == df_insp[Winner(df_last[g].plate_norm)]
            IN  /\ df_last[g].fecha = w.Fecha_dt
                /\ \A c \in ScoreCols :
                    /\ df_last[g].label[c] = compliance_label(w.score[c])
                    /\ isna(w.score[c]) => df_last[g].label[c] = "NA"

\* C4: traffic_light returns one of the four tiers: "Sin inspeccion" exactly
\* for null days, otherwise "OK" up to green_max, "Alerta" above green_max
\* up to yellow_max, "Critico" above yellow_max.
TrafficLightTiers ==
    fn = "traffic_light" =>
        LET g == in_thr[1]
            y == in_thr[2]
        IN  /\ out_tier \in Tiers
            /\ (out_tier = "Sin inspeccion") <=> in_days.isnan
            /\ ~in_days.isnan =>
                /\ (out_tier = "OK") <=> (in_days.v <= g)
                /\ (out_tier = "Alerta") <=> (g < in_days.v /\ in_days.v <= y)
                /\ (out_tier = "Critico") <=> (in_days.v > y)

\* C4 witness: days equal to yellow_max, above green_max, are "Alerta".
TrafficLightWitness ==
    /\ fn = "traffic_light"
    /\ ~in_days.isnan
    /\ in_thr[1] < in_thr[2]
    /\ in_days.v = in_thr[2]
    /\ out_tier = "Alerta"

\* C5: in every report row, inspected is true iff the days are present iff
\* the date is present.
ReportRowInvariant ==
    stage = "results" =>
        \A i \in DOMAIN df :
            /\ df[i].Inspeccionado <=> ~df[i].dias.isnan
            /\ df[i].Inspeccionado <=> ~df[i].fecha.nat

\* C5 witness: a report with an inspected row and a row of the empty key.
ReportRowWitness ==
    /\ stage = "results"
    /\ \E i, j \in DOMAIN df :
        /\ df[i].Inspeccionado
        /\ ~df[j].Inspeccionado /\ df[j].plate_norm = <<>>

\* C6: the report has one row for each registry row, in order and with the
\* registry's plate as uploaded, and registry rows of one key carry the same
\* date and labels.
OneRowPerRegistryRow ==
    stage = "results" =>
        /\ Len(df) = Len(f_pat)
        /\ \A i \in DOMAIN df :
            /\ df[i].REG_PLATE = f_pat[i].REG_PLATE
            /\ df[i].plate_norm = normalize_plate(f_pat[i].REG_PLATE)
        /\ \A i, j \in DOMAIN df :
            df[i].plate_norm = df[j].plate_norm =>
                /\ df[i].fecha = df[j].fecha
                /\ df[i].label = df[j].label

\* C6 witness: two registry rows written differently share a key that two
\* inspection rows share as well.
OneRowPerRegistryRowWitness ==
    /\ stage = "results"
    /\ Len(df) = 2
    /\ df[1].REG_PLATE # df[2].REG_PLATE
    /\ df[1].plate_norm = df[2].plate_norm
    /\ df[1].Inspeccionado
    /\ Cardinality(KeyRows(df[1].plate_norm)) = 2

\* The label the specification describes: one trailing percent sign is
\* stripped and the rest parsed.
DescribedLabel(x) ==
    IF isna(x) THEN "NA"
    ELSE LET s == Strip(PyStr(x))
             r == IF s # <<>> /\ s[Len(s)] = "%"
                  THEN SubSeq(s, 1, Len(s) - 1) ELSE s
             v == ToNumeric(r)
         IN  IF ~v.isnum THEN "NA"
             ELSE IF v.ip >= LabelThreshold THEN "Cumple" ELSE "No Cumple"

\* C7: each compliance label of a report row of an inspected vehicle is the
\* described label of the corresponding raw score of the vehicle's latest
\* inspection, absent when that score is missing or not a number.
ReportLabelsFromLatest ==
    stage = "results" =>
        \A i \in DOMAIN df :
            df[i].Inspeccionado =>
                LET w == df_insp[Winner(df[i].plate_norm)]
                IN  \A c \in ScoreCols :
                        df[i].label[c] = DescribedLabel(w.score[c])

\* The date the specification describes for one value of the column.
DescribedDate(x) ==
    CASE x.kind = "nan" -> NaT
      [] x.kind = "str" ->
            IF IsSlashDate(x.s) THEN ParseDayFirst(x.s)
            ELSE SerialToDatetime(ToNumeric(x.s))
      [] OTHER -> Timestamp(x.n, 0)

\* C8: try_parse_date resolves every value on its own: a textual date to
\* its day-first reading, a serial number n to n days after 1899-12-30, any
\* other value to NaT, one result for each value.
DateResolver ==
    fn = "try_parse_date" =>
        /\ DOMAIN out_dates = DOMAIN in_col
        /\ \A i \in DOMAIN in_col : out_dates[i] = DescribedDate(in_col[i])

\* C9: the thresholds used by a run are green_max as entered and yellow_max
\* raised to green_max when it was entered lower, with a warning exactly
\* then; every tier of the report is computed with that ordered pair.
ThresholdOrdering ==
    stage = "results" =>
        /\ green_max = green_in
        /\ yellow_max >= green_max
        /\ yellow_in >= green_in => (yellow_max = yellow_in /\ ~warned)
        /\ yellow_in < green_in => (yellow_max = green_in /\ warned)
        /\ \A i \in DOMAIN df :
               df[i].Semaforo = traffic_light(df[i].dias, green_max, yellow_max)

\* C9 witness: yellow_max entered below green_max, and a vehicle whose days
\* lie between the two entered values.
ThresholdOrderingWitness ==
    /\ stage = "results"
    /\ yellow_in < green_in
    /\ warned
    /\ \E i \in DOMAIN df :
        /\ df[i].Inspeccionado
        /\ yellow_in < df[i].dias.v /\ df[i].dias.v <= green_in
        /\ df[i].Semaforo = "OK"

\* C10: normalize_plate is idempotent, maps a missing value to the empty
\* text and returns only the characters A-Z and 0-9.
PlateIdempotent ==
    fn = "normalize_plate" =>
        /\ normalize_plate(StrCell(out_plate)) = out_plate
        /\ isna(in_plate) => out_plate = <<>>
        /\ \A i \in DOMAIN out_plate : IsPlateChar(out_plate[i])

\* C10 witness: a text that normalization changes to a non-empty key.
PlateIdempotentWitness ==
    /\ fn = "normalize_plate"
    /\ in_plate.kind = "str"
    /\ out_plate # <<>>
    /\ out_plate # in_plate.s

====
